---- MODULE Spec2Model ----
(***************************************************************************)
(* doitlive: keystroke-gated replay of a shell session (src/doitlive.py).  *)
(* Text is modelled as sequences of one-character strings, so that         *)
(* stripping, the directive regular expression, int(), str.format and the  *)
(* reveal slices are computed as the code computes them.                   *)
(***************************************************************************)
EXTENDS Integers, Sequences, FiniteSets, TLC

(* ------------------------------ bounds --------------------------------- *)
\* number of session lines the driver iterates over
MaxLines == 3
\* cap on key reads inside one reveal loop (the loop is unbounded when
\* speed <= 0); larger than the longest command of the pool
MaxSteps == 6

(* --------------------------- text helpers ------------------------------ *)
Min(a, b) == IF a < b THEN a ELSE b
Max(a, b) == IF a > b THEN a ELSE b

Drop(s, n) == SubSeq(s, n + 1, Len(s))

\* str.startswith
StartsWith(s, p) == Len(s) >= Len(p) /\ SubSeq(s, 1, Len(p)) = p

\* the `in` operator on strings (substring test)
Contains(s, p) == \E k \in 0..(Len(s) - Len(p)) : SubSeq(s, k + 1, k + Len(p)) = p

\* whitespace as str.strip(), str.split() and the regex class \s see it
IsSpace(c) == c \in {" ", "\t", "\n", "\r"}

RECURSIVE LStrip(_)
LStrip(s) == IF s # <<>> /\ IsSpace(Head(s)) THEN LStrip(Tail(s)) ELSE s

RECURSIVE RStrip(_)
RStrip(s) ==
  IF s # <<>> /\ IsSpace(s[Len(s)]) THEN RStrip(SubSeq(s, 1, Len(s) - 1)) ELSE s

\* str.strip()
Strip(s) == RStrip(LStrip(s))

\* the maximal run of non-whitespace characters at the start of s
RECURSIVE Word(_)
Word(s) == IF s = <<>> \/ IsSpace(Head(s)) THEN <<>> ELSE <<Head(s)>> \o Word(Tail(s))

\* cmd.split()[1]: the second whitespace-separated word (<<>> when there is none)
SplitSecond(s) ==
  LET a == LStrip(s)
      b == LStrip(Drop(a, Len(Word(a))))
  IN  Word(b)

\* Python's text[a:b] for any integers a, b (negative indices count from the end)
PySlice(s, a, b) ==
  LET n  == Len(s)
      lo == IF a < 0 THEN Max(a + n, 0) ELSE Min(a, n)
      hi == IF b < 0 THEN Max(b + n, 0) ELSE Min(b, n)
  IN  SubSeq(s, lo + 1, hi)

(* ------------------------- program constants --------------------------- *)
ESC == "ESC"
RETURNS == {"\r", "\n"}
DefaultShell == <<"/", "b", "i", "n", "/", "b", "a", "s", "h">>

(* ------------------------- directive parsing --------------------------- *)
Keyword == <<"d", "o", "i", "t", "l", "i", "v", "e">>
\* mutation: the alternation lacks env
Options_NoEnv ==
  << <<"p", "r", "o", "m", "p", "t">>,
     <<"s", "h", "e", "l", "l">>,
     <<"a", "l", "i", "a", "s">>,
     <<"s", "p", "e", "e", "d">> >>

Options ==
  << <<"p", "r", "o", "m", "p", "t">>,
     <<"s", "h", "e", "l", "l">>,
     <<"a", "l", "i", "a", "s">>,
     <<"e", "n", "v">>,
     <<"s", "p", "e", "e", "d">> >>

NoMatch == [matched |-> FALSE, option |-> <<>>, arg |-> <<>>]

\* (?P<option>prompt|shell|alias|env|speed): then \s*(?P<arg>.+)$ on the rest
OptionArg(s) ==
  IF \E k \in 1..Len(Options) : StartsWith(s, Options[k] \o <<":">>)
  THEN LET k    == CHOOSE j \in 1..Len(Options) : StartsWith(s, Options[j] \o <<":">>)
           rest == Drop(s, Len(Options[k]) + 1)
           body == LStrip(rest)
           \* \s* is greedy but gives one character back when .+ would be empty
           arg  == IF body = <<>> /\ rest # <<>> THEN <<rest[Len(rest)]>> ELSE body
       IN  IF arg = <<>> \/ (\E j \in 1..Len(arg) : arg[j] = "\n")
           THEN NoMatch
           ELSE [matched |-> TRUE, option |-> Options[k], arg |-> arg]
  ELSE NoMatch

\* OPTION_RE.match(command)
OPTION_RE(command) ==
  IF command = <<>> \/ Head(command) # "#" THEN NoMatch
  ELSE LET a == Tail(command)
           \* \s? : at most one whitespace character before the keyword
           b == IF a # <<>> /\ IsSpace(Head(a)) THEN Tail(a) ELSE a
       IN  IF ~StartsWith(b, Keyword) THEN NoMatch
           ELSE LET c == Drop(b, Len(Keyword))
                IN  \* \s+ : one or more whitespace characters
                    IF c = <<>> \/ ~IsSpace(Head(c)) THEN NoMatch
                    ELSE OptionArg(LStrip(c))

Digits == <<"0", "1", "2", "3", "4", "5", "6", "7", "8", "9">>
IsDigit(c) == \E d \in 1..Len(Digits) : Digits[d] = c
DigitVal(c) == (CHOOSE d \in 1..Len(Digits) : Digits[d] = c) - 1

RECURSIVE Decimal(_)
Decimal(s) == IF s = <<>> THEN 0
              ELSE 10 * Decimal(SubSeq(s, 1, Len(s) - 1)) + DigitVal(s[Len(s)])

\* int(arg): optional sign then digits; anything else raises ValueError
ParseInt(arg) ==
  LET t      == Strip(arg)
      signed == t # <<>> /\ Head(t) \in {"+", "-"}
      ds     == IF signed THEN Tail(t) ELSE t
      ok     == ds # <<>> /\ \A j \in 1..Len(ds) : IsDigit(ds[j])
  IN  [ok  |-> ok,
       val |-> IF ~ok THEN 0
               ELSE IF signed /\ Head(t) = "-" THEN 0 - Decimal(ds) ELSE Decimal(ds)]

(* ----------------------- modelled environment -------------------------- *)
\* getpass.getuser()
User == <<"u">>
\* env['HOME']
HOME == <<"/", "h">>
\* the directories that exist; every other path makes os.chdir raise OSError
Dirs == { <<"/">>, <<"/", "h">>, <<"/", "t">>, <<"/", "t", "/", "s">> }
\* the values env.get('DOITLIVE_PROMPT') can have (<<>>: not set)
PromptOverrides == { <<>>, <<"{", "u", "s", "e", "r", "}", "$">> }
\* env.get('DOITLIVE_INTERPRETER') (<<>>: not set)
DOITLIVE_INTERPRETER == <<>>
\* the bytes a child writes to its standard output
ChildStdout == <<"o", "k", "\n">>
\* the child's exit statuses that are told apart
ExitCodes == {0, 1}
\* the keys getchar() can return: cancel, the two commit keys, any other key
Keys == {ESC, "\r", "\n", "x"}
\* the values of the --speed option the sessions start with
InitSpeeds == {1, 2}

(* --------------------------- prompt renderer --------------------------- *)
\* click.style(text, fg=..., bold=...): ANSI codes around the text
Style(t, fg, bold) ==
  <<fg>> \o (IF bold THEN <<"\\e[1m">> ELSE <<>>) \o t \o <<"\\e[0m">>
Cyan == "\\e[36m"
Green == "\\e[32m"

RECURSIVE LastComponent(_)
\* os.path.split(path)[-1]: what follows the last "/"
LastComponent(p) ==
  IF p = <<>> \/ p[Len(p)] = "/" THEN <<>>
  ELSE LastComponent(SubSeq(p, 1, Len(p) - 1)) \o <<p[Len(p)]>>

\* PromptState.update(): the attributes after the call, in directory d
PromptStateUpdate(d) ==
  [user        |-> Style(User, Cyan, TRUE),
   cwd         |-> d,
   display_cwd |-> Style(IF d = HOME THEN <<"~">> ELSE LastComponent(d), Green, FALSE)]

EmptyPromptState == [user |-> <<>>, cwd |-> <<>>, display_cwd |-> <<>>]

\* index of the first "}" of t, 0 when there is none
FieldEnd(t) ==
  IF \E k \in 1..Len(t) : t[k] = "}"
  THEN CHOOSE k \in 1..Len(t) : t[k] = "}" /\ \A j \in 1..(k - 1) : t[j] # "}"
  ELSE 0

RECURSIVE FormatOK(_, _)
\* str.format raises (KeyError, ValueError, IndexError) exactly when this is FALSE;
\* kw is the set of keyword names passed.  Only plain {name} fields are modelled.
FormatOK(t, kw) ==
  IF t = <<>> THEN TRUE
  ELSE IF Head(t) = "{"
       THEN IF Len(t) >= 2 /\ t[2] = "{" THEN FormatOK(Drop(t, 2), kw)
            ELSE /\ FieldEnd(t) > 0
                 /\ SubSeq(t, 2, FieldEnd(t) - 1) \in kw
                 /\ FormatOK(Drop(t, FieldEnd(t)), kw)
       ELSE IF Head(t) = "}"
            THEN Len(t) >= 2 /\ t[2] = "}" /\ FormatOK(Drop(t, 2), kw)
            ELSE FormatOK(Tail(t), kw)

RECURSIVE Format(_, _)
\* str.format(**kw) for a template that FormatOK accepts; kw maps names to text
Format(t, kw) ==
  IF t = <<>> THEN <<>>
  ELSE IF Head(t) \in {"{", "}"}
       THEN IF Len(t) >= 2 /\ t[2] = Head(t)
            THEN <<Head(t)>> \o Format(Drop(t, 2), kw)
            ELSE kw[SubSeq(t, 2, FieldEnd(t) - 1)] \o Format(Drop(t, FieldEnd(t)), kw)
       ELSE <<Head(t)>> \o Format(Tail(t), kw)

PromptKw(ps) ==
  [n \in { <<"u", "s", "e", "r">>, <<"c", "w", "d">>,
           <<"f", "u", "l", "l", "_", "c", "w", "d">> } |->
     IF n = <<"u", "s", "e", "r">> THEN ps.user
     ELSE IF n = <<"c", "w", "d">> THEN ps.display_cwd
     ELSE ps.cwd]

\* format_prompt(prompt) called in directory d: [ok, text]
format_prompt(template, d) ==
  LET ps == PromptStateUpdate(d)
  IN  IF FormatOK(template, DOMAIN PromptKw(ps))
      THEN [ok |-> TRUE, text |-> Format(template, PromptKw(ps))]
      ELSE [ok |-> FALSE, text |-> <<>>]

DefaultTemplate ==
  <<"{", "u", "s", "e", "r", "}", "@", "{", "d", "i", "r", "}", ":", " ", "$">>

\* get_default_prompt() called in directory d with DOITLIVE_PROMPT = override
get_default_prompt(override, d) ==
  IF override # <<>> THEN override
  ELSE LET ps == PromptStateUpdate(d)
       IN  Format(DefaultTemplate,
                  [n \in { <<"u", "s", "e", "r">>, <<"d", "i", "r">> } |->
                     IF n = <<"u", "s", "e", "r">> THEN ps.user ELSE ps.display_cwd])

\* the prompt values: a callable (get_default_prompt) or a string
Callable == [callable |-> TRUE, text |-> <<>>]
Static(t) == [callable |-> FALSE, text |-> t]

\* mutation: the default prompt is computed whatever the prompt setting is
ResolvePrompt_IgnoresSetting(p, override, d) == get_default_prompt(override, d)

\* `if callable(prompt): prompt = prompt()` in directory d
ResolvePrompt(p, override, d) ==
  IF p.callable THEN get_default_prompt(override, d) ELSE p.text

\* _prompt_state after resolving prompt p (update() runs only on the default path)
PromptStateAfterResolve(p, override, d, ps) ==
  IF p.callable /\ override = <<>> THEN PromptStateUpdate(d) ELSE ps

(* -------------------------- command executor --------------------------- *)
\* mutation: the interpreter handed in is ignored
ResolveShell_IgnoresSetting(sh) ==
  IF DOITLIVE_INTERPRETER # <<>> THEN DOITLIVE_INTERPRETER ELSE DefaultShell

\* shell or env.get('DOITLIVE_INTERPRETER') or '/bin/bash'
ResolveShell(sh) ==
  IF sh # <<>> THEN sh
  ELSE IF DOITLIVE_INTERPRETER # <<>> THEN DOITLIVE_INTERPRETER ELSE DefaultShell

\* cmd.startswith("cd ")
IsCd(cmd) == StartsWith(cmd, <<"c", "d", " ">>)

\* os.path.expanduser for "~" and "~/..." (other users' homes are not modelled)
ExpandUser(p) ==
  IF p # <<>> /\ Head(p) = "~" /\ (Len(p) = 1 \/ p[2] = "/")
  THEN HOME \o Tail(p) ELSE p

\* the directory os.chdir(p) names when the process is in directory d
ChdirTarget(d, p) ==
  IF p # <<>> /\ Head(p) = "/" THEN p
  ELSE IF d = <<"/">> THEN d \o p ELSE d \o <<"/">> \o p

\* mutation: the path is not home-expanded
CdTarget_NoExpand(cmd, d) == ChdirTarget(d, SplitSecond(cmd))

\* the directory the cd branch of run_command changes to
CdTarget(cmd, d) == ChdirTarget(d, ExpandUser(SplitSecond(cmd)))

RECURSIVE WriteLines(_, _)
\* the for loops writing one 'export ...\n' or 'alias ...\n' line per element
WriteLines(prefix, items) ==
  IF items = <<>> THEN <<>>
  ELSE prefix \o Head(items) \o <<"\n">> \o WriteLines(prefix, Tail(items))

\* mutation: the alias loop runs before the export loop
ScriptText_AliasesFirst(cmd, sh, als, evs) ==
     <<"#", "!">> \o sh \o <<"\n">>
  \o <<"#", " ", "-", "*", "-", " ", "c", "o", "d", "i", "n", "g", ":", " ",
       "u", "t", "f", "-", "8", " ", "-", "*", "-", "\n">>
  \o (IF Contains(sh, <<"b", "a", "s", "h">>)
      THEN <<"s", "h", "o", "p", "t", " ", "-", "s", " ", "e", "x", "p", "a", "n", "d",
             "_", "a", "l", "i", "a", "s", "e", "s", "\n">>
      ELSE <<>>)
  \o WriteLines(<<"a", "l", "i", "a", "s", " ">>, als)
  \o WriteLines(<<"e", "x", "p", "o", "r", "t", " ">>, evs)
  \o cmd \o <<"\n">>

\* everything fp.write() has written when the child is started
ScriptText(cmd, sh, als, evs) ==
     <<"#", "!">> \o sh \o <<"\n">>
  \o <<"#", " ", "-", "*", "-", " ", "c", "o", "d", "i", "n", "g", ":", " ",
       "u", "t", "f", "-", "8", " ", "-", "*", "-", "\n">>
  \o (IF Contains(sh, <<"b", "a", "s", "h">>)
      THEN <<"s", "h", "o", "p", "t", " ", "-", "s", " ", "e", "x", "p", "a", "n", "d",
             "_", "a", "l", "i", "a", "s", "e", "s", "\n">>
      ELSE <<>>)
  \o WriteLines(<<"e", "x", "p", "o", "r", "t", " ">>, evs)
  \o WriteLines(<<"a", "l", "i", "a", "s", " ">>, als)
  \o cmd \o <<"\n">>

(* ---------------------------- session lines --------------------------- *)
\* the raw lines a session file can hold, as readlines() returns them
Lines ==
  { <<"p", "w", "d", "\n">>,
    <<"l", "l", " ", "-", "a", "\n">>,
    <<"c", "d", " ", "/", "t", "\n">>,
    <<"c", "d", " ", "~", "\n">>,
    <<"c", "d", " ", "s", "\n">>,
    <<"#", " ", "d", "o", "i", "t", "l", "i", "v", "e", " ", "p", "r", "o", "m", "p", "t",
      ":", " ", "{", "c", "w", "d", "}", ">", "\n">>,
    <<"#", " ", "d", "o", "i", "t", "l", "i", "v", "e", " ", "s", "h", "e", "l", "l", ":",
      " ", "/", "b", "i", "n", "/", "s", "h", "\n">>,
    <<"#", " ", "d", "o", "i", "t", "l", "i", "v", "e", " ", "a", "l", "i", "a", "s", ":",
      " ", "l", "l", "=", "l", "s", "\n">>,
    <<"#", " ", "d", "o", "i", "t", "l", "i", "v", "e", " ", "e", "n", "v", ":", " ",
      "A", "=", "1", "\n">>,
    <<"#", "d", "o", "i", "t", "l", "i", "v", "e", " ", "s", "p", "e", "e", "d", ":",
      " ", "2", "\n">>,
    <<"#", " ", "d", "o", "i", "t", "l", "i", "v", "e", " ", "s", "p", "e", "e", "d", ":",
      " ", "3", "\n">>,
    <<"#", " ", "d", "o", "i", "t", "l", "i", "v", "e", " ", "s", "p", "e", "e", "d", ":",
      " ", "0", "\n">>,
    <<"#", " ", "d", "o", "i", "t", "l", "i", "v", "e", " ", "s", "p", "e", "e", "d", ":",
      " ", "x", "\n">>,
    <<"#", " ", "d", "o", "i", "t", "l", "i", "v", "e", " ", "s", "p", "e", "e", "d", ":",
      " ", "-", "1", "\n">>,
    <<"#", " ", "d", "o", "i", "t", "l", "i", "v", "e", " ", "f", "o", "o", ":", " ",
      "1", "\n">>,
    <<"#", " ", "h", "i", "\n">>,
    <<"\n">> }

(* -------------------------------- state -------------------------------- *)
VARIABLES
  check_output,    \* run's parameter, fixed for the session
  DOITLIVE_PROMPT, \* env.get('DOITLIVE_PROMPT'), fixed for the session
  shell, prompt, speed, aliases, envvars,  \* run's locals
  cwd,             \* the process working directory
  prompt_state,    \* the _prompt_state singleton
  pc,              \* where the session is blocked or how it ended
  lineno,          \* lines of `commands` consumed so far
  line,            \* the line the for loop is at
  text, i, output, \* magictype's locals (text: the command)
  echoed,          \* the slices the reveal loop of this command has echoed
  shown,           \* the prompt text last echoed
  tmpfiles,        \* contents of the temporary script files that exist
  err,             \* the exception that ended the session ("none": none)
  escSeen,         \* ESC was read during this command's reveal or commit wait
  executed,        \* run_command was invoked for this command
  status,          \* {exit status of this command's child} ({}: none has exited)
  started,         \* number of magictype calls so far
  ran,             \* number of run_command calls so far
  in_char          \* the key getchar() returned last in this magictype call

vars == <<check_output, DOITLIVE_PROMPT, shell, prompt, speed, aliases, envvars, cwd,
          prompt_state, pc, lineno, line, text, i, output, echoed, shown, tmpfiles,
          err, escSeen, executed, status, started, ran, in_char>>

config == <<shell, prompt, speed, aliases, envvars>>
typing == <<text, i, echoed, output, executed, status>>
fixed  == <<check_output, DOITLIVE_PROMPT>>

\* the values run_command returns: None, an exit status, or the captured bytes
NoOutput == [kind |-> "None", rc |-> {}, data |-> <<>>]
IntOutput(rc) == [kind |-> "int", rc |-> {rc}, data |-> <<>>]
BytesOutput(b) == [kind |-> "bytes", rc |-> {}, data |-> b]

Init ==
  /\ check_output \in BOOLEAN
  /\ DOITLIVE_PROMPT \in PromptOverrides
  /\ shell = DefaultShell
  /\ prompt = Callable
  /\ speed \in InitSpeeds
  /\ aliases = <<>>
  /\ envvars = <<>>
  /\ cwd \in {HOME, <<"/", "t">>}
  /\ prompt_state = EmptyPromptState
  /\ pc = "pause"
  /\ lineno = 0
  /\ line = <<>>
  /\ text = <<>>
  /\ i = 0
  /\ output = NoOutput
  /\ echoed = <<>>
  /\ shown = <<>>
  /\ tmpfiles = {}
  /\ err = "none"
  /\ escSeen = FALSE
  /\ executed = FALSE
  /\ status = {}
  /\ started = 0
  /\ ran = 0
  /\ in_char = "none"

\* mutation: click.Abort is caught and the loop that read the key goes on
Raise_AbortIgnored(e) ==
  /\ err' = e
  /\ pc' = IF e = "Abort" THEN pc ELSE "error"

\* mutation: an exception other than click.Abort is caught by the for loop
Raise_ErrorSwallowed(e) ==
  /\ err' = e
  /\ pc' = IF e = "Abort" THEN "aborted" ELSE "loop"

\* an exception leaves run(): click.Abort on cancel, anything else a crash
Raise(e) ==
  /\ err' = e
  /\ pc' = IF e = "Abort" THEN "aborted" ELSE "error"

(* ---------------------------- session driver --------------------------- *)
\* click.pause(): any key lets the session begin
Pause(k) ==
  /\ pc = "pause"
  /\ pc' = "loop"
  /\ UNCHANGED <<fixed, config, cwd, prompt_state, lineno, line, typing, shown,
                 tmpfiles, err, escSeen, started, ran, in_char>>

\* for line in commands: a line that is blank after strip()
BlankLine(l) ==
  /\ pc = "loop"
  /\ lineno < MaxLines
  /\ Strip(l) = <<>>
  /\ lineno' = lineno + 1
  /\ line' = l
  /\ UNCHANGED <<fixed, config, cwd, prompt_state, pc, typing, shown, tmpfiles, err,
                 escSeen, started, ran, in_char>>

\* mutation: env assigns a one-element list instead of appending
ApplyDirective_EnvReplaces(option, arg, d) ==
  LET cur == [ok |-> TRUE, err |-> "none", shell |-> shell, prompt |-> prompt,
              speed |-> speed, aliases |-> aliases, envvars |-> envvars]
  IN  IF option = <<"p", "r", "o", "m", "p", "t">>
      THEN IF format_prompt(arg, d).ok
           THEN [cur EXCEPT !.prompt = Static(format_prompt(arg, d).text)]
           ELSE [cur EXCEPT !.ok = FALSE, !.err = "KeyError"]
      ELSE IF option = <<"s", "h", "e", "l", "l">>
      THEN [cur EXCEPT !.shell = arg]
      ELSE IF option = <<"a", "l", "i", "a", "s">>
      THEN [cur EXCEPT !.aliases = Append(aliases, arg)]
      ELSE IF option = <<"e", "n", "v">>
      THEN [cur EXCEPT !.envvars = <<arg>>]
      ELSE IF option = <<"s", "p", "e", "e", "d">>
      THEN IF ParseInt(arg).ok
           THEN [cur EXCEPT !.speed = ParseInt(arg).val]
           ELSE [cur EXCEPT !.ok = FALSE, !.err = "ValueError"]
      ELSE cur

\* the directive branch of run: the locals after `option: arg` is applied in
\* directory d, as [ok, shell, prompt, speed, aliases, envvars, err]
ApplyDirective(option, arg, d) ==
  LET cur == [ok |-> TRUE, err |-> "none", shell |-> shell, prompt |-> prompt,
              speed |-> speed, aliases |-> aliases, envvars |-> envvars]
  IN  IF option = <<"p", "r", "o", "m", "p", "t">>
      THEN IF format_prompt(arg, d).ok
           THEN [cur EXCEPT !.prompt = Static(format_prompt(arg, d).text)]
           ELSE [cur EXCEPT !.ok = FALSE, !.err = "KeyError"]
      ELSE IF option = <<"s", "h", "e", "l", "l">>
      THEN [cur EXCEPT !.shell = arg]
      ELSE IF option = <<"a", "l", "i", "a", "s">>
      THEN [cur EXCEPT !.aliases = Append(aliases, arg)]
      ELSE IF option = <<"e", "n", "v">>
      THEN [cur EXCEPT !.envvars = Append(envvars, arg)]
      ELSE IF option = <<"s", "p", "e", "e", "d">>
      THEN IF ParseInt(arg).ok
           THEN [cur EXCEPT !.speed = ParseInt(arg).val]
           ELSE [cur EXCEPT !.ok = FALSE, !.err = "ValueError"]
      ELSE cur

\* for line in commands: a line starting with '#': a directive or a comment
CommentLine(l) ==
  /\ pc = "loop"
  /\ lineno < MaxLines
  /\ Strip(l) # <<>>
  /\ Head(Strip(l)) = "#"
  /\ lineno' = lineno + 1
  /\ line' = l
  /\ LET m == OPTION_RE(Strip(l))
         r == ApplyDirective(m.option, m.arg, cwd)
     IN  IF ~m.matched
         THEN UNCHANGED <<config, prompt_state, pc, err>>
         ELSE /\ prompt_state' =
                   IF m.option = <<"p", "r", "o", "m", "p", "t">>
                   THEN PromptStateUpdate(cwd) ELSE prompt_state
              /\ IF r.ok
                 THEN /\ shell' = r.shell
                      /\ prompt' = r.prompt
                      /\ speed' = r.speed
                      /\ aliases' = r.aliases
                      /\ envvars' = r.envvars
                      /\ UNCHANGED <<pc, err>>
                 ELSE /\ Raise(r.err)
                      /\ UNCHANGED config
  /\ UNCHANGED <<fixed, cwd, typing, shown, tmpfiles, escSeen, started, ran, in_char>>

\* for line in commands: any other line; magictype() runs up to its first getchar()
CommandLine(l) ==
  /\ pc = "loop"
  /\ lineno < MaxLines
  /\ Strip(l) # <<>>
  /\ Head(Strip(l)) # "#"
  /\ lineno' = lineno + 1
  /\ line' = l
  /\ started' = started + 1
  /\ text' = Strip(l)
  /\ shown' = ResolvePrompt(prompt, DOITLIVE_PROMPT, cwd) \o <<" ">>
  /\ prompt_state' = PromptStateAfterResolve(prompt, DOITLIVE_PROMPT, cwd, prompt_state)
  /\ i' = 0
  /\ echoed' = <<>>
  /\ output' = NoOutput
  /\ executed' = FALSE
  /\ status' = {}
  /\ escSeen' = FALSE
  /\ in_char' = "none"
  /\ pc' = "reveal"
  /\ UNCHANGED <<fixed, config, cwd, tmpfiles, err, ran>>

\* the for loop is exhausted: the final prompt is echoed and wait_for blocks
EndOfLines ==
  /\ pc = "loop"
  /\ shown' = ResolvePrompt(prompt, DOITLIVE_PROMPT, cwd) \o <<" ">>
  /\ prompt' = Static(ResolvePrompt(prompt, DOITLIVE_PROMPT, cwd))
  /\ prompt_state' = PromptStateAfterResolve(prompt, DOITLIVE_PROMPT, cwd, prompt_state)
  /\ pc' = "final"
  /\ UNCHANGED <<fixed, shell, speed, aliases, envvars, cwd, lineno, line, typing,
                 tmpfiles, err, escSeen, started, ran, in_char>>

(* --------------------------- playback engine --------------------------- *)
\* mutation: the cancel key is not checked
wait_for_NoCancel(k, chars) == IF k \in chars THEN "return" ELSE "again"

\* mutation: any key but ESC ends the wait
wait_for_AnyKey(k, chars) == IF k = ESC THEN "abort" ELSE "return"

\* wait_for(chars) on reading key k: raise click.Abort, return, or read again
wait_for(k, chars) ==
  IF k = ESC THEN "abort" ELSE IF k \in chars THEN "return" ELSE "again"

\* mutation: the slice runs one character past i + speed
RevealSlice_Overlap(t, cursor, sp) == PySlice(t, cursor, cursor + sp + 1)

\* char = text[i:i + speed]
RevealSlice(t, cursor, sp) == PySlice(t, cursor, cursor + sp)

\* i += speed
NextCursor(cursor, sp) == cursor + sp

\* mutation: the loop ends one character early
RevealDone_OffByOne(cursor, t) == cursor + 1 >= Len(t)

\* while i < len(text): the loop condition fails
RevealDone(cursor, t) == ~(cursor < Len(t))

\* mutation: a commit key cancels too
IsCancel_ReturnsToo(k) == k = ESC \/ k \in RETURNS

\* if in_char == ESC (in the reveal loop)
IsCancel(k) == k = ESC

\* one pass of magictype's while loop: getchar() returns k
RevealKey(k) ==
  /\ pc = "reveal"
  /\ Len(echoed) < MaxSteps
  /\ in_char' = k
  /\ escSeen' = (escSeen \/ k = ESC)
  /\ IF IsCancel(k)
     THEN /\ Raise("Abort")
          /\ UNCHANGED <<i, echoed>>
     ELSE /\ echoed' = Append(echoed, RevealSlice(text, i, speed))
          /\ i' = NextCursor(i, speed)
          /\ pc' = IF RevealDone(NextCursor(i, speed), text) THEN "commit" ELSE "reveal"
          /\ UNCHANGED err
  /\ UNCHANGED <<fixed, config, cwd, prompt_state, lineno, line, text, output, shown,
                 tmpfiles, executed, status, started, ran>>

\* wait_for(RETURNS) in magictype reads k; on a commit key run_command runs up to
\* the start of the child (or through its cd branch)
CommitKey(k) ==
  /\ pc = "commit"
  /\ in_char' = k
  /\ escSeen' = (escSeen \/ k = ESC)
  /\ CASE wait_for(k, RETURNS) = "abort" ->
            /\ Raise("Abort")
            /\ UNCHANGED <<cwd, tmpfiles, executed, ran>>
       [] wait_for(k, RETURNS) = "again" ->
            UNCHANGED <<pc, err, cwd, tmpfiles, executed, ran>>
       [] wait_for(k, RETURNS) = "return" ->
            /\ executed' = TRUE
            /\ ran' = ran + 1
            /\ IF IsCd(text)
               THEN /\ IF CdTarget(text, cwd) \in Dirs
                       THEN /\ cwd' = CdTarget(text, cwd)
                            /\ pc' = "loop"
                            /\ UNCHANGED err
                       ELSE /\ Raise("OSError")
                            /\ UNCHANGED cwd
                    /\ UNCHANGED tmpfiles
               ELSE /\ tmpfiles' = tmpfiles \cup
                         {ScriptText(text, ResolveShell(shell), aliases, envvars)}
                    /\ pc' = "child"
                    /\ UNCHANGED <<cwd, err>>
  /\ UNCHANGED <<fixed, config, prompt_state, lineno, line, text, i, output, echoed,
                 shown, status, started>>

\* mutation: the file is removed on normal exit only (no cleanup on an exception)
WithExit_LeakOnRaise(files, raising) == IF raising THEN files ELSE {}

\* leaving the `with NamedTemporaryFile` block, normally or by an exception
WithExit(files, raising) == {}

\* mutation: a non-zero exit raises in both modes (check_call for call)
Subprocess_CheckCall(capture, rc) ==
  IF rc # 0 THEN [raised |-> TRUE, value |-> NoOutput]
  ELSE [raised |-> FALSE, value |-> IF capture THEN BytesOutput(ChildStdout)
                                    ELSE IntOutput(rc)]

\* subprocess.check_output / subprocess.call for a child that exits with rc
Subprocess(capture, rc) ==
  IF capture
  THEN IF rc = 0 THEN [raised |-> FALSE, value |-> BytesOutput(ChildStdout)]
                 ELSE [raised |-> TRUE, value |-> NoOutput]
  ELSE [raised |-> FALSE, value |-> IntOutput(rc)]

\* mutation: run_command empties the alias list it was handed
ChildExit_DrainsAliases(rc) ==
  /\ pc = "child"
  /\ status' = {rc}
  /\ aliases' = <<>>
  /\ tmpfiles' = WithExit(tmpfiles, Subprocess(check_output, rc).raised)
  /\ IF Subprocess(check_output, rc).raised
     THEN /\ Raise("CalledProcessError")
          /\ UNCHANGED output
     ELSE /\ output' = Subprocess(check_output, rc).value
          /\ pc' = "loop"
          /\ UNCHANGED err
  /\ UNCHANGED <<fixed, shell, prompt, speed, envvars, cwd, prompt_state, lineno, line,
                 text, i, echoed, shown, escSeen, executed, started, ran, in_char>>

\* the child exits with status rc; run_command returns or raises
ChildExit(rc) ==
  /\ pc = "child"
  /\ status' = {rc}
  /\ tmpfiles' = WithExit(tmpfiles, Subprocess(check_output, rc).raised)
  /\ IF Subprocess(check_output, rc).raised
     THEN /\ Raise("CalledProcessError")
          /\ UNCHANGED output
     ELSE /\ output' = Subprocess(check_output, rc).value
          /\ pc' = "loop"
          /\ UNCHANGED err
  /\ UNCHANGED <<fixed, config, cwd, prompt_state, lineno, line, text, i, echoed,
                 shown, escSeen, executed, started, ran, in_char>>

\* the interpreter cannot be started: subprocess raises OSError
LaunchFails ==
  /\ pc = "child"
  /\ tmpfiles' = WithExit(tmpfiles, TRUE)
  /\ Raise("OSError")
  /\ UNCHANGED <<fixed, config, cwd, prompt_state, lineno, line, typing, shown,
                 escSeen, started, ran, in_char>>

\* wait_for(RETURNS) at the final prompt reads k
FinalKey(k) ==
  /\ pc = "final"
  /\ in_char' = k
  /\ CASE wait_for(k, RETURNS) = "abort"  -> Raise("Abort")
       [] wait_for(k, RETURNS) = "again"  -> UNCHANGED <<pc, err>>
       [] wait_for(k, RETURNS) = "return" -> pc' = "finished" /\ UNCHANGED err
  /\ UNCHANGED <<fixed, config, cwd, prompt_state, lineno, line, typing, shown,
                 tmpfiles, escSeen, started, ran>>

Next ==
  \/ \E k \in Keys : Pause(k)
  \/ \E l \in Lines : BlankLine(l)
  \/ \E l \in Lines : CommentLine(l)
  \/ \E l \in Lines : CommandLine(l)
  \/ EndOfLines
  \/ \E k \in Keys : RevealKey(k)
  \/ \E k \in Keys : CommitKey(k)
  \/ \E rc \in ExitCodes : ChildExit(rc)
  \/ LaunchFails
  \/ \E k \in Keys : FinalKey(k)

Spec == Init /\ [][Next]_vars

(* ------------------------------- claims -------------------------------- *)
RECURSIVE Flatten(_)
Flatten(ss) == IF ss = <<>> THEN <<>> ELSE Head(ss) \o Flatten(Tail(ss))

CeilDiv(a, b) == (a + b - 1) \div b

IsPrefix(a, b) == Len(a) <= Len(b) /\ SubSeq(b, 1, Len(a)) = a

Revealing == pc \in {"reveal", "commit", "child"}

\* C1: with speed s >= 1 and no cancel key, the reveal of a command of length L
\* takes exactly ceil(L/s) key reads; the k-th echoed slice is the text from
\* position (k-1)s up to ks clamped to L; and the slices concatenate to the text.
C1_RevealExact ==
  (Revealing /\ speed >= 1) =>
     /\ \A k \in 1..Len(echoed) :
          echoed[k] = SubSeq(text, (k - 1) * speed + 1, Min(k * speed, Len(text)))
     /\ IsPrefix(Flatten(echoed), text)
     /\ pc = "reveal" => Len(echoed) < CeilDiv(Len(text), speed)
     /\ pc # "reveal" => /\ Len(echoed) = CeilDiv(Len(text), speed)
                         /\ Flatten(echoed) = text

\* a 5-character command fully revealed at speed 2 in 3 steps, the last one clamped
C1_Witness ==
  /\ pc = "commit" /\ speed = 2 /\ Len(text) = 5
  /\ Len(echoed) = 3 /\ Len(echoed[3]) = 1

\* C2: once ESC is read during a command's reveal or commit wait, run_command is
\* not invoked for that command (and the session is aborted); so a command that
\* was executed had no ESC read between the start of its reveal and its commit.
C2_CancelPreventsExecution ==
  /\ escSeen => (~executed /\ pc = "aborted" /\ err = "Abort")
  /\ executed => ~escSeen

\* ESC read at the commit wait of a fully revealed command
C2_Witness ==
  /\ escSeen /\ pc = "aborted" /\ started >= 1
  /\ i >= Len(text) /\ Flatten(echoed) = text

\* the line is a speed directive whose argument is not a positive integer
IsBadSpeedLine(l) ==
  LET m == OPTION_RE(Strip(l))
  IN  /\ m.matched
      /\ m.option = <<"s", "p", "e", "e", "d">>
      /\ ~(ParseInt(m.arg).ok /\ ParseInt(m.arg).val >= 1)

\* C3: once the driver has reached a speed directive whose argument is not a
\* positive integer, the session has ended in a fatal error and no command has
\* been revealed or executed.
C3_BadSpeedFatalBeforePlayback ==
  IsBadSpeedLine(line) => (pc = "error" /\ started = 0)

\* this step is one pass of the for loop taking the next line
Consumes == lineno' = lineno + 1

\* C4: in non-capture mode a child that exits, with status zero or not, returns
\* the status to magictype and the driver is back at the for loop with its
\* configuration, working directory and position untouched and no error raised:
\* the state after a non-zero exit differs from the one after a zero exit only
\* in the status returned.
C4_NonZeroExitContinues ==
  [][(pc = "child" /\ ~check_output /\ status' # {}) =>
        /\ pc' = "loop"
        /\ err' = "none"
        /\ output'.kind = "int" /\ output'.rc = status'
        /\ tmpfiles' = {}
        /\ UNCHANGED <<config, cwd, lineno, line, started, text, fixed>>]_vars

\* a second command is being revealed after the first one's child exited non-zero:
\* the status is still the local `output` of the magictype call that returned
C4_Witness ==
  /\ ~check_output /\ started = 1 /\ status = {1} /\ output = IntOutput(1)
  /\ pc = "loop" /\ err = "none" /\ lineno < MaxLines

\* the lines of a script file: the text between newline characters
RECURSIVE SplitLines(_)
SplitLines(t) ==
  IF t = <<>> THEN <<>>
  ELSE LET n == CHOOSE k \in 1..(Len(t) + 1) :
                  /\ (k = Len(t) + 1 \/ t[k] = "\n")
                  /\ \A j \in 1..(k - 1) : t[j] # "\n"
       IN  <<SubSeq(t, 1, n - 1)>> \o SplitLines(Drop(t, n))

ExportPrefix == <<"e", "x", "p", "o", "r", "t", " ">>
AliasPrefix == <<"a", "l", "i", "a", "s", " ">>

\* the elements of a sequence that satisfy a test, in order
RECURSIVE ExportLinesOf(_)
ExportLinesOf(ls) ==
  IF ls = <<>> THEN <<>>
  ELSE (IF StartsWith(Head(ls), ExportPrefix) THEN <<Head(ls)>> ELSE <<>>)
       \o ExportLinesOf(Tail(ls))

\* C5: the alias and env lists only grow by appending at the end; an env (alias)
\* directive appends exactly its argument; and when a command's script is run,
\* its export statements are exactly the env assignments accumulated so far, one
\* per assignment and in order.
C5_AccumulatorsAppendOnly ==
  [][/\ IsPrefix(aliases, aliases')
     /\ IsPrefix(envvars, envvars')
     /\ LET m == OPTION_RE(Strip(line'))
        IN  (Consumes /\ m.matched /\ pc' # "error") =>
              /\ m.option = <<"e", "n", "v">> => envvars' = Append(envvars, m.arg)
              /\ m.option = <<"a", "l", "i", "a", "s">> => aliases' = Append(aliases, m.arg)
     /\ pc' = "child" =>
          \E f \in tmpfiles' :
             ExportLinesOf(SplitLines(f)) =
               [k \in 1..Len(envvars') |-> ExportPrefix \o envvars'[k]]]_vars

\* a command is executed after two env directives
C5_Witness ==
  /\ pc = "child" /\ Len(envvars) = 2
  /\ \E f \in tmpfiles : Len(ExportLinesOf(SplitLines(f))) = 2

\* a command of the form `cd <path>`: "cd ", then one word
IsCdForm(t) ==
  /\ StartsWith(t, <<"c", "d", " ">>)
  /\ Len(t) > 3
  /\ \A k \in 4..Len(t) : ~IsSpace(t[k])

\* the directory `cd <path>` names from directory d, <path> home-expanded
CdFormTarget(t, d) ==
  LET path == Drop(t, 3)
      full == IF path = <<"~">> THEN HOME
              ELSE IF StartsWith(path, <<"~", "/">>) THEN HOME \o Tail(path)
              ELSE path
  IN  IF Head(full) = "/" THEN full
      ELSE IF d = <<"/">> THEN <<"/">> \o full ELSE d \o <<"/">> \o full

\* the default prompt of user u in directory d, as echoed
DynamicPromptIn(d) ==
     <<Cyan, "\\e[1m">> \o User \o <<"\\e[0m", "@", Green>>
  \o (IF d = HOME THEN <<"~">> ELSE LastComponent(d))
  \o <<"\\e[0m", ":", " ", "$", " ">>

\* C6: committing `cd <path>` for an existing directory makes <path>
\* (home-expanded) the working directory, creates no temporary script, starts no
\* child and returns to the driver; and whenever the dynamic default prompt is
\* rendered (for the next command or the final prompt) it shows the working
\* directory of that moment.
C6_CdChangesDirectory ==
  [][/\ (/\ pc = "commit" /\ ~executed /\ executed'
         /\ IsCdForm(text) /\ CdFormTarget(text, cwd) \in Dirs) =>
           /\ cwd' = CdFormTarget(text, cwd)
           /\ tmpfiles' = {}
           /\ pc' = "loop"
           /\ status' = {}
           /\ output' = NoOutput
     /\ (/\ pc = "loop" /\ pc' \in {"reveal", "final"}
         /\ prompt.callable /\ DOITLIVE_PROMPT = <<>>) =>
           shown' = DynamicPromptIn(cwd)]_vars

\* after `cd s` from /t the next command is revealed behind a prompt showing s
C6_Witness ==
  /\ pc = "reveal" /\ started >= 2
  /\ cwd = <<"/", "t", "/", "s">>
  /\ shown = DynamicPromptIn(<<"/", "t", "/", "s">>)

\* the leading text of a line of the shape `# doitlive <option>: <value>`
ShapePrefix == <<"#", " ", "d", "o", "i", "t", "l", "i", "v", "e", " ">>

\* position of the first ":" of t, 0 when there is none
Colon(t) ==
  IF \E k \in 1..Len(t) : t[k] = ":"
  THEN CHOOSE k \in 1..Len(t) : t[k] = ":" /\ \A j \in 1..(k - 1) : t[j] # ":"
  ELSE 0

ShapeOption(l) == SubSeq(Drop(l, Len(ShapePrefix)), 1, Colon(Drop(l, Len(ShapePrefix))) - 1)
ShapeValue(l) == Drop(Drop(l, Len(ShapePrefix)), Colon(Drop(l, Len(ShapePrefix))) + 1)

\* l is `# doitlive <option>: <value>` with a one-word option and a value
HasShape(l) ==
  /\ StartsWith(l, ShapePrefix)
  /\ Colon(Drop(l, Len(ShapePrefix))) > 1
  /\ \A k \in 1..Len(ShapeOption(l)) : ~IsSpace(ShapeOption(l)[k])
  /\ Len(Drop(l, Len(ShapePrefix))) > Colon(Drop(l, Len(ShapePrefix))) + 1
  /\ Drop(l, Len(ShapePrefix))[Colon(Drop(l, Len(ShapePrefix))) + 1] = " "
  /\ ~IsSpace(Head(ShapeValue(l)))

\* C7: a line `# doitlive <option>: <value>` is never revealed or executed; with
\* option prompt, shell, alias, env or speed exactly that setting is changed to
\* (or extended by) the value and the other settings stay; with any other option
\* nothing is applied: interpreter, prompt, speed, alias and env lists stay.
\* (A speed value that is no integer, or a prompt template that cannot be
\* formatted, is an error and applies nothing.)
C7_DirectiveApplied ==
  [][(Consumes /\ HasShape(Strip(line'))) =>
       LET o == ShapeOption(Strip(line'))
           v == ShapeValue(Strip(line'))
       IN  /\ UNCHANGED <<started, executed, echoed, text, tmpfiles, shown>>
           /\ pc' \in {"loop", "error"}
           /\ pc' = "error" =>
                 /\ UNCHANGED config
                 /\ \/ o = <<"s", "p", "e", "e", "d">> /\ ~ParseInt(v).ok
                    \/ o = <<"p", "r", "o", "m", "p", "t">> /\ ~format_prompt(v, cwd).ok
           /\ pc' = "loop" =>
                CASE o = <<"p", "r", "o", "m", "p", "t">> ->
                       /\ prompt' = Static(format_prompt(v, cwd).text)
                       /\ UNCHANGED <<shell, speed, aliases, envvars>>
                  [] o = <<"s", "h", "e", "l", "l">> ->
                       shell' = v /\ UNCHANGED <<prompt, speed, aliases, envvars>>
                  [] o = <<"a", "l", "i", "a", "s">> ->
                       /\ aliases' = Append(aliases, v)
                       /\ UNCHANGED <<shell, prompt, speed, envvars>>
                  [] o = <<"e", "n", "v">> ->
                       /\ envvars' = Append(envvars, v)
                       /\ UNCHANGED <<shell, prompt, speed, aliases>>
                  [] o = <<"s", "p", "e", "e", "d">> ->
                       /\ ParseInt(v).ok /\ speed' = ParseInt(v).val
                       /\ UNCHANGED <<shell, prompt, aliases, envvars>>
                  [] OTHER -> UNCHANGED config]_vars

\* an unrecognized option went by with an alias and a new interpreter in force
C7_Witness ==
  /\ HasShape(Strip(line)) /\ ShapeOption(Strip(line)) = <<"f", "o", "o">>
  /\ pc = "loop" /\ lineno = 3
  /\ Len(aliases) = 1 /\ shell # DefaultShell

\* a file made of the given lines, each ended by a newline
RECURSIVE JoinLines(_)
JoinLines(ls) == IF ls = <<>> THEN <<>> ELSE Head(ls) \o <<"\n">> \o JoinLines(Tail(ls))

Shebang(sh) == <<"#", "!">> \o sh
Preamble(sh) ==
  IF Contains(sh, <<"b", "a", "s", "h">>)
  THEN << <<"s", "h", "o", "p", "t", " ", "-", "s", " ", "e", "x", "p", "a", "n", "d",
            "_", "a", "l", "i", "a", "s", "e", "s">> >>
  ELSE <<>>
Exports == [k \in 1..Len(envvars) |-> ExportPrefix \o envvars[k]]
AliasStatements == [k \in 1..Len(aliases) |-> AliasPrefix \o aliases[k]]
CodingLine ==
  <<"#", " ", "-", "*", "-", " ", "c", "o", "d", "i", "n", "g", ":", " ",
    "u", "t", "f", "-", "8", " ", "-", "*", "-">>

\* C8 as stated: the script of a non-cd command is the shebang line, the
\* preamble when required, the exports, the aliases and the command, and no
\* other line.
C8_ScriptAsClaimed ==
  pc = "child" =>
    tmpfiles = { JoinLines(<<Shebang(shell)>> \o Preamble(shell) \o Exports
                           \o AliasStatements \o <<text>>) }

\* C8 (amended): the script of a non-cd command is the shebang line of the
\* active interpreter, the fixed line `# -*- coding: utf-8 -*-`, the preamble
\* when the interpreter's name contains bash, one export statement per env
\* assignment in order, one alias statement per alias in order, and last the
\* command text.
C8_ScriptLayout ==
  pc = "child" =>
    tmpfiles = { JoinLines(<<Shebang(shell), CodingLine>> \o Preamble(shell) \o Exports
                           \o AliasStatements \o <<text>>) }

\* a bash script with one export and one alias statement: six lines
C8_Witness ==
  /\ pc = "child" /\ Len(envvars) = 1 /\ Len(aliases) = 1
  /\ \E f \in tmpfiles :
        /\ Len(SplitLines(f)) = 6
        /\ SplitLines(f)[5] = AliasPrefix \o aliases[1]
        /\ SplitLines(f)[6] = text

\* C9: a temporary script file exists only while run_command waits for its
\* child; at every key read, between lines and at the end of the session
\* (finished, cancelled or crashed) there is none.
C9_NoTempFileOutlivesRun ==
  /\ Cardinality(tmpfiles) <= 1
  /\ pc # "child" => tmpfiles = {}

\* run_command was left by an exception (capture mode, non-zero exit)
C9_Witness ==
  /\ pc = "error" /\ err = "CalledProcessError" /\ executed /\ ~IsCd(text)
  /\ status = {1} /\ tmpfiles = {}

\* C10: with the override set and no prompt directive applied yet, a command is
\* revealed behind the override template with its placeholders substituted.
C10_OverrideSubstituted ==
  (DOITLIVE_PROMPT # <<>> /\ prompt.callable /\ Revealing) =>
     shown = format_prompt(DOITLIVE_PROMPT, cwd).text \o <<" ">>

\* C11: in capture mode a child that exits non-zero is surfaced in the value
\* run_command returns to magictype: the call returns, no exception unwinds out
\* of it and the driver goes on with the for loop.
C11_CaptureFailureReturned ==
  (check_output /\ status # {} /\ status # {0}) =>
     (err = "none" /\ pc # "error" /\ output # NoOutput)

\* C12: the closing banner is printed only from the final prompt, by a commit
\* key read there, with every command started also committed and executed and
\* no error raised; a cancel key read anywhere raises the cancellation, and
\* once it is raised nothing happens any more: no key is read, nothing is
\* revealed, nothing is executed and the banner is never printed.
C12_BannerLastCancelFinal ==
  /\ [](pc \in {"final", "finished"} =>
          /\ ran = started /\ (started > 0 => executed)
          /\ i >= Len(text) /\ tmpfiles = {})
  /\ [](pc = "finished" => (err = "none" /\ in_char \in RETURNS))
  /\ [](in_char = ESC => (err = "Abort" /\ pc = "aborted"))
  /\ [](err = "Abort" => pc = "aborted")
  /\ [][/\ (pc' = "finished" /\ pc # "finished") =>
              (pc = "final" /\ in_char' \in RETURNS /\ UNCHANGED <<ran, started, echoed>>)
        /\ pc # "aborted" /\ pc # "finished"]_vars

\* two commands were revealed, committed and executed, then the banner printed
C12_Witness ==
  /\ pc = "finished" /\ started = 2 /\ ran = 2 /\ lineno >= 2

\* the option and argument of the directive on the line consumed by this step
DirectiveOf(l) == OPTION_RE(Strip(l))

\* this step applies a prompt, shell or speed directive without error
AppliesSetting(o) ==
  /\ Consumes /\ pc' = "loop"
  /\ DirectiveOf(line').matched /\ DirectiveOf(line').option = o

\* C13: a prompt, shell or speed directive replaces the previous value and
\* touches nothing of the command before it; the three settings change at no
\* other step while commands remain, and never while a command is being
\* revealed or run; and each command takes the values in force when its line
\* is reached: its prompt is the current prompt setting, every reveal step
\* moves by the current speed, and its script names the current interpreter.
C13_SettingsTakeEffectForLaterCommands ==
  [][/\ AppliesSetting(<<"p", "r", "o", "m", "p", "t">>) =>
           /\ prompt' = Static(format_prompt(DirectiveOf(line').arg, cwd).text)
           /\ UNCHANGED <<shell, speed>>
     /\ AppliesSetting(<<"s", "h", "e", "l", "l">>) =>
           /\ shell' = DirectiveOf(line').arg
           /\ UNCHANGED <<prompt, speed>>
     /\ AppliesSetting(<<"s", "p", "e", "e", "d">>) =>
           /\ speed' = ParseInt(DirectiveOf(line').arg).val
           /\ UNCHANGED <<prompt, shell>>
     /\ (Consumes /\ DirectiveOf(line').matched) =>
           UNCHANGED <<text, i, echoed, shown, output, status, executed, ran,
                       started, tmpfiles, cwd>>
     /\ (<<shell, speed>>' # <<shell, speed>> \/ (prompt' # prompt /\ pc' # "final")) =>
           \E o \in {<<"p", "r", "o", "m", "p", "t">>, <<"s", "h", "e", "l", "l">>,
                     <<"s", "p", "e", "e", "d">>} : AppliesSetting(o)
     /\ (pc = "loop" /\ pc' = "reveal") =>
           /\ UNCHANGED config
           /\ ~prompt.callable => shown' = prompt.text \o <<" ">>
     /\ (pc = "reveal" /\ in_char' # ESC) =>
           /\ i' = i + speed
           /\ echoed' = Append(echoed, PySlice(text, i, i + speed))
     /\ (pc = "commit" /\ pc' = "child") =>
           \A f \in tmpfiles' : SplitLines(f)[1] = Shebang(shell)]_vars

\* a command run by /bin/sh at speed 3 after a shell and a speed directive
C13_Witness ==
  /\ pc = "child" /\ speed = 3 /\ lineno = 3
  /\ shell = <<"/", "b", "i", "n", "/", "s", "h">>
  /\ \E f \in tmpfiles : SplitLines(f)[1] = Shebang(shell)
  /\ Len(echoed) = CeilDiv(Len(text), 3)

\* l is neither blank nor a comment: a line to be revealed and executed
IsCommandLine(l) == Strip(l) # <<>> /\ Head(Strip(l)) # "#"

allButKey ==
  <<fixed, config, cwd, prompt_state, pc, lineno, line, typing, shown, tmpfiles,
    err, started, ran>>

\* C15: at the commit wait of a fully revealed command a key that is neither a
\* commit key nor ESC changes nothing, however many are read; ESC aborts the
\* session with nothing executed; only a commit key lets run_command be
\* invoked, and run_command is invoked at no other step.
C15_CommitWaitDiscardsOtherKeys ==
  /\ [](pc = "commit" => (i >= Len(text) /\ Flatten(echoed) = text /\ ~executed))
  /\ [][/\ pc = "commit" =>
              CASE in_char' = ESC ->
                     /\ pc' = "aborted" /\ err' = "Abort"
                     /\ UNCHANGED <<fixed, config, cwd, typing, shown, tmpfiles, ran>>
                [] in_char' \in RETURNS ->
                     /\ ran' = ran + 1 /\ executed'
                     /\ UNCHANGED <<fixed, config, text, i, echoed, shown>>
                [] OTHER -> UNCHANGED allButKey /\ ~escSeen'
        /\ (ran' # ran \/ (executed' /\ ~executed)) =>
              (pc = "commit" /\ in_char' \in RETURNS)]_vars

\* run_command was entered on "\n" read at the commit wait
C15_Witness ==
  /\ pc = "child" /\ executed /\ in_char = "\n"
  /\ ran = started /\ Flatten(echoed) = text

\* C16: while the cursor is below the text length every key read other than
\* ESC, a commit key included, performs one reveal step (one slice echoed, the
\* cursor moved by the speed) and nothing else: nothing is executed, nothing
\* of the configuration, the directory or the position in the script moves;
\* and run_command is entered only with the cursor at or past the text length.
C16_RevealKeysOnlyReveal ==
  /\ [](pc = "reveal" => (i < Len(text) /\ ~executed /\ ran = started - 1))
  /\ [](executed => i >= Len(text))
  /\ [][/\ (pc = "reveal" /\ in_char' # ESC) =>
              /\ Len(echoed') = Len(echoed) + 1
              /\ i' = i + speed
              /\ pc' = IF i' < Len(text) THEN "reveal" ELSE "commit"
              /\ UNCHANGED <<fixed, config, cwd, prompt_state, lineno, line, text,
                             output, shown, tmpfiles, err, executed, status,
                             started, ran>>
        /\ ran' # ran => (pc # "reveal" /\ i >= Len(text) /\ i' = i)]_vars

\* a commit key read in mid-reveal echoed a slice and nothing was executed
C16_Witness ==
  /\ pc = "reveal" /\ in_char \in RETURNS
  /\ Len(echoed) >= 1 /\ i < Len(text) /\ ~executed /\ tmpfiles = {}

\* the template of the prompt directive `# doitlive prompt: {cwd}>`
CwdTemplate == <<"{", "c", "w", "d", "}", ">">>

\* C17: a prompt directive fixes the prompt to the rendering of its template in
\* the directory of that moment; from then on the setting changes only by
\* another prompt directive (not by a cd, a command or the end of the script),
\* and every command and the final prompt are shown behind exactly that text.
\* With no prompt directive and no override the prompt of each command is
\* computed from the working directory at the moment its reveal begins.
C17_StaticPromptFrozen ==
  /\ []((~prompt.callable /\ (Revealing \/ pc \in {"final", "finished"})) =>
           shown = prompt.text \o <<" ">>)
  /\ [][/\ AppliesSetting(<<"p", "r", "o", "m", "p", "t">>) =>
              /\ ~prompt'.callable
              /\ prompt'.text = format_prompt(DirectiveOf(line').arg, cwd).text
        /\ (~prompt.callable /\ ~AppliesSetting(<<"p", "r", "o", "m", "p", "t">>)) =>
              prompt' = prompt
        /\ (cwd' # cwd /\ pc' = "loop") => UNCHANGED <<prompt, shown>>
        /\ (pc = "loop" /\ pc' = "reveal" /\ prompt.callable /\ DOITLIVE_PROMPT = <<>>) =>
              /\ shown' = DynamicPromptIn(cwd)
              /\ prompt'.callable]_vars

\* after a prompt directive and a cd, a command is revealed behind the prompt
\* rendered in the directory the directive was applied in, not the current one
C17_Witness ==
  /\ pc = "reveal" /\ ~prompt.callable /\ started >= 2
  /\ shown = prompt.text \o <<" ">>
  /\ prompt.text # format_prompt(CwdTemplate, cwd).text
  /\ \E d \in Dirs : d # cwd /\ prompt.text = format_prompt(CwdTemplate, d).text

\* C18 as stated: alias list, env list, interpreter, speed and prompt setting
\* change at no step but the application of a directive.
C18_OnlyDirectivesModify ==
  [][config' # config => (Consumes /\ DirectiveOf(line').matched)]_vars

\* C18: from the moment magictype is called for a command until it returns,
\* is cancelled or fails (run_command included), alias list, env list,
\* interpreter, speed and prompt setting are unchanged; they are modified only
\* by the directive branch of run and, for the prompt setting alone, by run
\* resolving a still callable prompt to its text for the final prompt.
C18_ConfigReadOnlyInCalls ==
  [][/\ (Revealing \/ (pc = "loop" /\ pc' = "reveal")) => UNCHANGED config
     /\ config' # config =>
          \/ Consumes /\ DirectiveOf(line').matched /\ pc' = "loop"
          \/ /\ pc = "loop" /\ pc' = "final" /\ prompt.callable
             /\ prompt' = Static(SubSeq(shown', 1, Len(shown') - 1))
             /\ UNCHANGED <<shell, speed, aliases, envvars>>]_vars

\* a command run with an alias and another interpreter in force failed in
\* run_command, and both settings are as the directives left them
C18_Witness ==
  /\ pc = "error" /\ err = "CalledProcessError" /\ executed
  /\ Len(aliases) = 1 /\ shell = <<"/", "b", "i", "n", "/", "s", "h">>

\* C19: in the reveal loop every key read other than ESC strictly increases
\* the cursor, for every speed the driver can hold, so a command of length L is
\* fully revealed after at most L such reads.
C19_RevealTerminates ==
  /\ [](pc = "reveal" => (i >= Len(echoed) /\ Len(echoed) < Len(text)))
  /\ [][(pc = "reveal" /\ in_char' # ESC) => i' > i]_vars

\* C20: a committed cd to a directory that cannot be entered leaves the working
\* directory as it was and raises out of run_command, magictype and run: the
\* session is over with that error, nothing was written or launched, and no
\* step follows: no later line is taken, nothing revealed or executed, no
\* banner printed.
C20_FailedCdEndsSession ==
  /\ [](cwd \in Dirs)
  /\ [](err \notin {"none", "Abort"} => pc = "error")
  /\ [][/\ (/\ pc = "commit" /\ ran' = ran + 1
            /\ IsCdForm(text) /\ CdFormTarget(text, cwd) \notin Dirs) =>
              /\ cwd' = cwd
              /\ pc' = "error" /\ err' = "OSError"
              /\ tmpfiles' = {} /\ status' = {} /\ output' = NoOutput
              /\ UNCHANGED <<config, lineno, started, echoed, shown>>
        /\ pc # "error"]_vars

\* `cd s` committed in the home directory, which has no directory s
C20_Witness ==
  /\ pc = "error" /\ err = "OSError" /\ executed /\ ran = started
  /\ IsCdForm(text) /\ CdFormTarget(text, cwd) \notin Dirs
  /\ cwd = HOME /\ tmpfiles = {}

====
